---- MODULE Spec2Model ----
(***************************************************************************)
(* Model of src/app.py, the Streamlit page "Mobile JKN Sentiment           *)
(* Analysis".  One script run (a page run) is one action: Streamlit        *)
(* executes the script top to bottom for every user interaction.  The      *)
(* state that outlives a run is the two memo tables of @st.cache_resource  *)
(* (load_models) and @st.cache_data (load_data); everything else is the    *)
(* module-level variables and the output of the latest run.                *)
(*                                                                         *)
(* Strings whose characters the code inspects (the review text, the        *)
(* predicted label) are sequences of one-character strings.                *)
(***************************************************************************)
EXTENDS Integers, Sequences, FiniteSets, TLC

VARIABLES
    cache_resource,  \* memo of load_models(): [present, model, vectorizer]
    cache_data,      \* memo of load_data(): [present, df]
    model,           \* module-level name bound at line 104
    vectorizer,      \* module-level name bound at line 104
    df,              \* module-level name bound at line 105
    option,          \* sidebar radio value of the latest run
    user_input,      \* text area value of the latest run
    pressed,         \* st.button value of the latest run
    rendered,        \* elements the latest run put on the page
    notices,         \* st.error / st.warning / st.info of the latest run
    calls,           \* artifact methods invoked by the latest run, in order
    attempted,       \* the latest run entered the try block of line 195
    locals,          \* hasil_prediksi, confidence, emoji, color of the latest run
    shown,           \* the result box of lines 212-223 as rendered
    raised,          \* exception that ended the latest run, if any
    load_runs,       \* executions of the body of load_models in the latest run
    loaded_before,   \* history: an earlier run executed the body of load_models
    remembered,      \* history: one earlier successful submission and its result
    failed_since     \* history: a later run caught a prediction failure

vars == <<cache_resource, cache_data, model, vectorizer, df, option, user_input,
          pressed, rendered, notices, calls, attempted, locals, shown, raised,
          load_runs, loaded_before, remembered, failed_since>>

(***************************************************************************)
(* Bounds of the model.                                                    *)
(***************************************************************************)
MaxTextLen == 2      \* longest review text submitted

(***************************************************************************)
(* Values.                                                                 *)
(***************************************************************************)
None == "None"          \* Python's None
Unbound == "unbound"    \* a module-level name the run never assigned

NoException == [type |-> "", msg |-> ""]

Dashboard == "Dashboard"
Dataset == "Dataset"
PrediksiManual == "Prediksi Manual"
VisualisasiSentimen == "Visualisasi Sentimen"
Options == {Dashboard, Dataset, PrediksiManual, VisualisasiSentimen}

\* Characters of a review text: white space and two tokens, "b" counted in
\* favour of positif and "j" in favour of negatif.  The blank stands for
\* every character str.strip() drops.
Whitespace == {" "}
Chars == Whitespace \cup {"b", "j"}

RECURSIVE SeqsUpTo(_, _)
SeqsUpTo(S, n) ==
    IF n = 0 THEN {<<>>}
    ELSE LET shorter == SeqsUpTo(S, n - 1)
         IN  shorter \cup {Append(s, c) : s \in {t \in shorter : Len(t) = n - 1}, c \in S}

Texts == SeqsUpTo(Chars, MaxTextLen)

(***************************************************************************)
(* str.strip(), line 194: drop leading and trailing white space.           *)
(***************************************************************************)
RECURSIVE LStrip(_)
LStrip(s) ==
    IF s = <<>> THEN <<>>
    ELSE IF Head(s) \in Whitespace THEN LStrip(Tail(s)) ELSE s

RECURSIVE RStrip(_)
RStrip(s) ==
    IF s = <<>> THEN <<>>
    ELSE IF s[Len(s)] \in Whitespace THEN RStrip(SubSeq(s, 1, Len(s) - 1)) ELSE s

StripKeepsAll(s) == s

Strip(s) == RStrip(LStrip(s))

\* Truth value of a str: non-empty.
Truthy(s) == s # <<>>

(***************************************************************************)
(* str.lower() and str.upper(), lines 202, 205, 217, over the letters the  *)
(* labels are written in.                                                  *)
(***************************************************************************)
LowerLetters == <<"a", "e", "f", "g", "i", "l", "n", "o", "p", "r", "s", "t">>
UpperLetters == <<"A", "E", "F", "G", "I", "L", "N", "O", "P", "R", "S", "T">>

LowerChar(c) ==
    IF \E i \in DOMAIN UpperLetters : UpperLetters[i] = c
    THEN LowerLetters[CHOOSE i \in DOMAIN UpperLetters : UpperLetters[i] = c]
    ELSE c

UpperChar(c) ==
    IF \E i \in DOMAIN LowerLetters : LowerLetters[i] = c
    THEN UpperLetters[CHOOSE i \in DOMAIN LowerLetters : LowerLetters[i] = c]
    ELSE c

LowerKeepsCase(s) == s

RECURSIVE Lower(_)
Lower(s) == IF s = <<>> THEN <<>> ELSE <<LowerChar(Head(s))>> \o Lower(Tail(s))

RECURSIVE Upper(_)
Upper(s) == IF s = <<>> THEN <<>> ELSE <<UpperChar(Head(s))>> \o Upper(Tail(s))

positif == <<"p", "o", "s", "i", "t", "i", "f">>
negatif == <<"n", "e", "g", "a", "t", "i", "f">>
netral == <<"n", "e", "t", "r", "a", "l">>

(***************************************************************************)
(* Label styling, lines 202-210.                                           *)
(***************************************************************************)
Styling(hasil_prediksi) ==
    IF Lower(hasil_prediksi) = positif
    THEN [emoji |-> "smile", color |-> "#4CAF50"]
    ELSE IF Lower(hasil_prediksi) = negatif
    THEN [emoji |-> "sad", color |-> "#F44336"]
    ELSE [emoji |-> "neutral", color |-> "#FF9800"]

(***************************************************************************)
(* abs(confidence) and the format specification :.2f, line 220.  A margin  *)
(* is a whole number of sixteenths, which a binary float holds exactly, so *)
(* the formatted value is the margin rounded to hundredths, a tie going to *)
(* the even hundredth.  The result is a whole number of hundredths.        *)
(***************************************************************************)
AbsKeepsSign(x) == x

AbsVal(x) == IF x < 0 THEN -x ELSE x

Format2f(x) ==
    LET n == (IF x < 0 THEN -x ELSE x) * 25
        q == n \div 4
        r == n % 4
        mag == IF r < 2 THEN q
               ELSE IF r > 2 THEN q + 1
               ELSE IF q % 2 = 0 THEN q ELSE q + 1
    IN  IF x < 0 THEN -mag ELSE mag

(***************************************************************************)
(* The pickled artifacts.  A file under model/ is absent, does not         *)
(* unpickle, or unpickles to one of the objects below; what an object      *)
(* does with a text is fixed by the object.                                *)
(*   vecT  count vectorizer, vocabulary (b, j), with a preprocessor that   *)
(*         rejects text holding white space                                *)
(*   vecB  count vectorizer, vocabulary (b)                                *)
(*   svmA  binary linear SVM over 2 features, classes negatif, positif     *)
(*   svmN  binary linear SVM over 1 feature, classes NETRAL, POSITIF       *)
(*   svmB  three-class linear SVM over 1 feature, classes Negatif,         *)
(*         Netral, Positif: decision_function yields one margin per class  *)
(*   nbC   classifier over 2 features with no decision_function            *)
(***************************************************************************)
Vectorizers == {"vecT", "vecB"}
Models == {"svmA", "svmN", "svmB", "nbC"}

Absent == "absent"
Corrupt == "corrupt"
ModelFileStates == {Absent, Corrupt} \cup Models
VectorizerFileStates == {Absent, Corrupt} \cup Vectorizers

Count(s, c) == Cardinality({i \in DOMAIN s : s[i] = c})

Scalar(x) == [scalar |-> TRUE, value |-> x, row |-> <<>>]
Row(r) == [scalar |-> FALSE, value |-> 0, row |-> r]
NoMargin == Scalar(0)

\* vectorizer.transform([user_input]), line 197
Transform(v, text) ==
    IF v = None
    THEN [exc |-> [type |-> "AttributeError",
                   msg |-> "'NoneType' object has no attribute 'transform'"],
          features |-> <<>>]
    ELSE IF v = "vecT" /\ \E i \in DOMAIN text : text[i] \in Whitespace
    THEN [exc |-> [type |-> "ValueError", msg |-> "white space in document"],
          features |-> <<>>]
    ELSE IF v = "vecB"
    THEN [exc |-> NoException, features |-> <<Count(text, "b")>>]
    ELSE [exc |-> NoException, features |-> <<Count(text, "b"), Count(text, "j")>>]

NFeatures(m) == IF m \in {"svmA", "nbC"} THEN 2 ELSE 1

FeatureMismatch ==
    [type |-> "ValueError", msg |-> "X has a different number of features than expected"]

\* The margin of the linear model, in sixteenths.
Margin(m, x) ==
    IF m = "svmA" THEN Scalar(5 * (x[1] - x[2]))
    ELSE IF m = "svmN" THEN Scalar(5 * x[1] - 3)
    ELSE Row(<<0 - 3 - 5 * x[1], 2 - 5 * x[1], 5 * x[1] - 2>>)

\* model.predict(input_vector)[0], line 198
Predict(m, x) ==
    IF Len(x) # NFeatures(m) THEN [exc |-> FeatureMismatch, label |-> <<>>]
    ELSE IF m = "svmA"
    THEN [exc |-> NoException,
          label |-> IF Margin(m, x).value > 0 THEN positif ELSE negatif]
    ELSE IF m = "svmN"
    THEN [exc |-> NoException,
          label |-> IF Margin(m, x).value > 0 THEN Upper(positif) ELSE Upper(netral)]
    ELSE IF m = "svmB"
    THEN [exc |-> NoException,
          label |-> IF x[1] = 0 THEN <<"N">> \o Tail(netral) ELSE <<"P">> \o Tail(positif)]
    ELSE [exc |-> NoException,
          label |-> IF x[1] >= x[2] THEN positif ELSE negatif]

\* model.decision_function(input_vector)[0], line 199
DecisionFunction(m, x) ==
    IF m = "nbC"
    THEN [exc |-> [type |-> "AttributeError",
                   msg |-> "object has no attribute 'decision_function'"],
          margin |-> NoMargin]
    ELSE IF Len(x) # NFeatures(m) THEN [exc |-> FeatureMismatch, margin |-> NoMargin]
    ELSE [exc |-> NoException, margin |-> Margin(m, x)]

FormatTypeError ==
    [type |-> "TypeError", msg |-> "unsupported format string passed to numpy.ndarray.__format__"]

(***************************************************************************)
(* load_models, lines 79-87.  The body returns a pair, returns             *)
(* (None, None) after FileNotFoundError, or lets any other exception       *)
(* out.  joblib.load raises FileNotFoundError for a missing file and an    *)
(* unpickling error for a file that does not deserialize.                  *)
(***************************************************************************)
UnpicklingError == [type |-> "UnpicklingError", msg |-> "invalid load key"]

ModelsNotFound ==
    [level |-> "error", text |-> "Model atau vectorizer tidak ditemukan",
     detail |-> "", files |-> {}]

LoadModelsBody(mf, vf) ==
    IF mf = Absent
    THEN [exc |-> NoException, model |-> None, vectorizer |-> None, loads |-> 1]
    ELSE IF mf = Corrupt
    THEN [exc |-> UnpicklingError, model |-> Unbound, vectorizer |-> Unbound, loads |-> 1]
    ELSE IF vf = Absent
    THEN [exc |-> NoException, model |-> None, vectorizer |-> None, loads |-> 2]
    ELSE IF vf = Corrupt
    THEN [exc |-> UnpicklingError, model |-> Unbound, vectorizer |-> Unbound, loads |-> 2]
    ELSE [exc |-> NoException, model |-> mf, vectorizer |-> vf, loads |-> 2]

EmptyResourceCache == [present |-> FALSE, model |-> None, vectorizer |-> None]

ForgetResource(ret) == EmptyResourceCache

\* @st.cache_resource, line 79: the value returned is kept for the process.
StoreResource(ret) ==
    [present |-> TRUE, model |-> ret.model, vectorizer |-> ret.vectorizer]

\* load_models() as called at line 104, through the memo.
CallLoadModels(cache, mf, vf) ==
    IF cache.present
    THEN [exc |-> NoException, model |-> cache.model, vectorizer |-> cache.vectorizer,
          loads |-> 0, ran |-> 0, cache |-> cache]
    ELSE LET ret == LoadModelsBody(mf, vf)
         IN  [exc |-> ret.exc, model |-> ret.model, vectorizer |-> ret.vectorizer,
              loads |-> ret.loads, ran |-> 1,
              cache |-> IF ret.exc = NoException THEN StoreResource(ret) ELSE cache]

(***************************************************************************)
(* load_data, lines 90-98.  The dataset file is absent, does not parse     *)
(* (pd.read_csv or the stemming conversion raises), or yields a table      *)
(* with or without a label column.                                         *)
(***************************************************************************)
DataFrames == {"df_with_label", "df_without_label"}
DataFileStates == {Absent, "unparsable"} \cup DataFrames

ParserError == [type |-> "ParserError", msg |-> "Error tokenizing data"]

DatasetNotFound ==
    [level |-> "error", text |-> "Dataset tidak ditemukan", detail |-> "", files |-> {}]

LoadDataBody(dfile) ==
    IF dfile = Absent THEN [exc |-> NoException, df |-> None]
    ELSE IF dfile = "unparsable" THEN [exc |-> ParserError, df |-> Unbound]
    ELSE [exc |-> NoException, df |-> dfile]

EmptyDataCache == [present |-> FALSE, df |-> None]

\* load_data() as called at line 105, through the memo of @st.cache_data.
CallLoadData(cache, dfile) ==
    IF cache.present
    THEN [exc |-> NoException, df |-> cache.df, cache |-> cache]
    ELSE LET ret == LoadDataBody(dfile)
         IN  [exc |-> ret.exc, df |-> ret.df,
              cache |-> IF ret.exc = NoException
                        THEN [present |-> TRUE, df |-> ret.df] ELSE cache]

HasLabel(d) == d = "df_with_label"

(***************************************************************************)
(* What a view hands back: the elements it rendered, its notices, the      *)
(* artifact calls it made, the locals of the prediction, the result box    *)
(* and the exception that left it, if any.                                 *)
(***************************************************************************)
NoLocals == [hasil_prediksi |-> <<>>, confidence |-> NoMargin, emoji |-> "", color |-> ""]
NoShown == [present |-> FALSE, emoji |-> "", color |-> "", heading |-> <<>>, confidence |-> 0]

Out(r, n, e) ==
    [rendered |-> r, notices |-> n, calls |-> <<>>, attempted |-> FALSE,
     locals |-> NoLocals, shown |-> NoShown, exc |-> e]

\* Dashboard, lines 122-137
ViewDashboard(d) ==
    IF d = None
    THEN Out({"dashboard_heading"}, {},
             [type |-> "AttributeError",
              msg |-> "'NoneType' object has no attribute 'columns'"])
    ELSE IF HasLabel(d)
    THEN Out({"dashboard_heading", "dashboard_pie"}, {}, NoException)
    ELSE Out({"dashboard_heading"}, {}, NoException)

\* Dataset, lines 140-170
ViewDataset(d) ==
    IF d # None
    THEN Out({"dataset_heading", "dataset_info", "dataset_filter", "dataset_preview",
              "dataset_download"}, {}, NoException)
    ELSE Out({"dataset_heading"}, {}, NoException)

(***************************************************************************)
(* Prediksi Manual, lines 173-228.                                         *)
(***************************************************************************)
GuardAlwaysOpen(m, v) == TRUE

\* if model is not None and vectorizer is not None, line 176
ArtifactsReady(m, v) == m # None /\ v # None

\* The body of the try block, lines 197-223.
PredictionTry(m, v, text) ==
    LET t == Transform(v, text)
        c1 == IF v = None THEN <<>> ELSE <<"transform">>
    IN  IF t.exc # NoException
        THEN [exc |-> t.exc, calls |-> c1, locals |-> NoLocals, shown |-> NoShown]
        ELSE
        LET p == Predict(m, t.features)
            c2 == Append(c1, "predict")
        IN  IF p.exc # NoException
            THEN [exc |-> p.exc, calls |-> c2, locals |-> NoLocals, shown |-> NoShown]
            ELSE
            LET d == DecisionFunction(m, t.features)
                c3 == IF m = "nbC" THEN c2 ELSE Append(c2, "decision_function")
                l0 == [hasil_prediksi |-> p.label, confidence |-> NoMargin,
                       emoji |-> "", color |-> ""]
            IN  IF d.exc # NoException
                THEN [exc |-> d.exc, calls |-> c3, locals |-> l0, shown |-> NoShown]
                ELSE
                LET sty == Styling(p.label)
                    l1 == [hasil_prediksi |-> p.label, confidence |-> d.margin,
                           emoji |-> sty.emoji, color |-> sty.color]
                IN  IF ~d.margin.scalar
                    THEN [exc |-> FormatTypeError, calls |-> c3, locals |-> l1,
                          shown |-> NoShown]
                    ELSE [exc |-> NoException, calls |-> c3, locals |-> l1,
                          shown |-> [present |-> TRUE, emoji |-> sty.emoji,
                                     color |-> sty.color,
                                     heading |-> Upper(p.label),
                                     confidence |-> Format2f(AbsVal(d.margin.value))]]

\* The try block on every artifact pair and text, worked out once.
PredictionTable ==
    [m \in Models \cup {None}, v \in Vectorizers \cup {None}, text \in Texts |->
        PredictionTry(m, v, text)]

CatchesValueErrorOnly(e) == e.type = "ValueError"

\* except Exception as e, line 225: every exception the try body raises
\* derives from Exception.
Catches(e) == TRUE

\* st.error(f"... {str(e)}"), line 226
PredictionFailed(e) ==
    [level |-> "error", text |-> "Terjadi kesalahan dalam prediksi",
     detail |-> e.msg, files |-> {}]

\* st.warning, line 228
EmptyInputWarning ==
    [level |-> "warning", text |-> "Silakan masukkan teks ulasan terlebih dahulu",
     detail |-> "", files |-> {}]

PrediksiForm == {"prediksi_heading", "prediksi_form", "prediksi_tips", "prediksi_button"}

ViewPrediksi(m, v, text, press) ==
    IF ~ArtifactsReady(m, v) THEN Out({"prediksi_heading"}, {}, NoException)
    ELSE IF ~press THEN Out(PrediksiForm, {}, NoException)
    ELSE IF ~Truthy(Strip(text)) THEN Out(PrediksiForm, {EmptyInputWarning}, NoException)
    ELSE
    LET t == PredictionTable[m, v, text]
    IN  [rendered |-> IF t.shown.present THEN PrediksiForm \cup {"result_box"}
                      ELSE PrediksiForm,
         notices |-> IF t.exc # NoException /\ Catches(t.exc)
                     THEN {PredictionFailed(t.exc)} ELSE {},
         calls |-> t.calls, attempted |-> TRUE, locals |-> t.locals, shown |-> t.shown,
         exc |-> IF t.exc # NoException /\ ~Catches(t.exc) THEN t.exc ELSE NoException]

(***************************************************************************)
(* Visualisasi Sentimen, lines 231-319.                                    *)
(***************************************************************************)
Image(name) == [dir |-> "images", name |-> name]

\* The files Image.open is given, lines 273, 278, 283, in that order.
OpenedImages == <<Image("positif.png"), Image("negatif.png"), Image("seluruh kata.png")>>

ImageSet == {OpenedImages[i] : i \in DOMAIN OpenedImages}

WordCloudNotFound ==
    [level |-> "error", text |-> "Gambar word cloud tidak ditemukan",
     detail |-> "", files |-> {}]

\* st.info, line 288
WordCloudFilesNeeded ==
    [level |-> "info", text |-> "File yang dibutuhkan",
     detail |-> "",
     files |-> {Image("wordcloud_positif.png"), Image("wordcloud_negatif.png"),
                Image("wordcloud_netral.png")}]

\* The try block of the word cloud tab, lines 268-288: the images are opened
\* in order and the first missing one ends the block.
WordCloudTab(present) ==
    LET missing == {i \in DOMAIN OpenedImages : OpenedImages[i] \notin present}
        first == IF missing = {} THEN Len(OpenedImages) + 1
                 ELSE CHOOSE i \in missing : \A j \in missing : i <= j
    IN  [rendered |-> {"wordcloud_heading"}
                      \cup {OpenedImages[i].name : i \in 1..(first - 1)},
         notices |-> IF missing = {} THEN {}
                     ELSE {WordCloudNotFound, WordCloudFilesNeeded}]

ViewVisualisasi(d, present) ==
    IF d # None /\ HasLabel(d)
    THEN LET wc == WordCloudTab(present)
         IN  Out({"visualisasi_heading", "bar_chart", "pie_chart", "sentiment_metrics",
                  "donut_chart"} \cup wc.rendered, wc.notices, NoException)
    ELSE Out({"visualisasi_heading"}, {}, NoException)

(***************************************************************************)
(* One run of the script, lines 13-329.  The file states are read only     *)
(* when the memo holds no value.  An exception nothing catches ends the    *)
(* run where it is raised: the names not yet assigned stay unbound and the *)
(* footer is not rendered.  The notice a memoized function emitted is      *)
(* replayed with the memoized value.                                       *)
(***************************************************************************)
View(opt, m, v, d, text, press, present) ==
    IF opt = Dashboard THEN ViewDashboard(d)
    ELSE IF opt = Dataset THEN ViewDataset(d)
    ELSE IF opt = PrediksiManual THEN ViewPrediksi(m, v, text, press)
    ELSE ViewVisualisasi(d, present)

\* Line 105 is reached only if line 104 raised nothing.
LoadDataStep(lm, dfile) ==
    IF lm.exc # NoException
    THEN [exc |-> NoException, df |-> Unbound, cache |-> cache_data]
    ELSE CallLoadData(cache_data, dfile)

\* Lines 107-319 are reached only if lines 104 and 105 raised nothing.
ViewStep(opt, lm, ld, text, press, present) ==
    IF lm.exc # NoException THEN Out({}, {}, lm.exc)
    ELSE IF ld.exc # NoException THEN Out({}, {}, ld.exc)
    ELSE View(opt, lm.model, lm.vectorizer, ld.df, text, press, present)

\* The page of the run: the header (line 101), the notices of the loaders,
\* the sidebar and the view (lines 108-319), the footer (lines 322-329).
Page(lm, ld, w) ==
    LET loaded == lm.exc = NoException /\ ld.exc = NoException
    IN  [w EXCEPT
            !.rendered = {"header"}
                         \cup (IF loaded THEN {"sidebar"} \cup w.rendered ELSE {})
                         \cup (IF w.exc = NoException THEN {"footer"} ELSE {}),
            !.notices = (IF lm.model = None THEN {ModelsNotFound} ELSE {})
                        \cup (IF ld.df = None THEN {DatasetNotFound} ELSE {})
                        \cup w.notices]

NotRemembered == [present |-> FALSE, text |-> <<>>, heading |-> <<>>, confidence |-> 0]

PredictionFailedIn(ns) == \E n \in ns : n.text = PredictionFailed(NoException).text

PageRun(opt, text, press, present) ==
    \E mf \in (IF cache_resource.present THEN {Absent} ELSE ModelFileStates),
       vf \in (IF cache_resource.present THEN {Absent} ELSE VectorizerFileStates),
       dfile \in (IF cache_data.present THEN {Absent} ELSE DataFileStates) :
      \E lm \in {CallLoadModels(cache_resource, mf, vf)} :
      \E ld \in {LoadDataStep(lm, dfile)} :
      \E w \in {ViewStep(opt, lm, ld, text, press, present)} :
      \E out \in {Page(lm, ld, w)}, keep \in BOOLEAN :
        /\ press => "prediksi_button" \in out.rendered
        /\ "prediksi_form" \notin out.rendered => text = <<>>
        /\ keep => ~remembered.present /\ out.shown.present
        /\ cache_resource' = lm.cache
        /\ cache_data' = ld.cache
        /\ model' = lm.model
        /\ vectorizer' = lm.vectorizer
        /\ df' = ld.df
        /\ option' = opt
        /\ user_input' = text
        /\ pressed' = press
        /\ rendered' = out.rendered
        /\ notices' = out.notices
        /\ calls' = out.calls
        /\ attempted' = out.attempted
        /\ locals' = out.locals
        /\ shown' = out.shown
        /\ raised' = out.exc
        /\ load_runs' = lm.ran
        /\ loaded_before' = (loaded_before \/ load_runs > 0)
        /\ remembered' = IF keep
                         THEN [present |-> TRUE, text |-> text,
                               heading |-> out.shown.heading,
                               confidence |-> out.shown.confidence]
                         ELSE remembered
        /\ failed_since' = (failed_since \/ (remembered.present
                                              /\ PredictionFailedIn(out.notices)))

RunDashboard == PageRun(Dashboard, <<>>, FALSE, {})

RunDataset == PageRun(Dataset, <<>>, FALSE, {})

\* A run of this view that the button did not trigger never reads the text.
RunPrediksiManual ==
    \/ PageRun(PrediksiManual, <<>>, FALSE, {})
    \/ \E text \in Texts : PageRun(PrediksiManual, text, TRUE, {})

RunVisualisasi == \E present \in SUBSET ImageSet : PageRun(VisualisasiSentimen, <<>>, FALSE, present)

\* The process has started and the script has not run yet.
InitRest ==
    /\ cache_resource = EmptyResourceCache
    /\ cache_data = EmptyDataCache
    /\ model = Unbound
    /\ vectorizer = Unbound
    /\ df = Unbound
    /\ option = Dashboard
    /\ user_input = <<>>
    /\ pressed = FALSE
    /\ rendered = {}
    /\ notices = {}
    /\ calls = <<>>
    /\ attempted = FALSE
    /\ shown = NoShown
    /\ raised = NoException
    /\ load_runs = 0
    /\ loaded_before = FALSE
    /\ remembered = NotRemembered
    /\ failed_since = FALSE

Init == InitRest /\ locals = NoLocals

Next == RunDashboard \/ RunDataset \/ RunPrediksiManual \/ RunVisualisasi

Spec == Init /\ [][Next]_vars

(***************************************************************************)
(* The label styling of lines 202-210 as a function of the label alone:    *)
(* the label is drawn from every casing of the three label words and from  *)
(* strings one character away from them, and the branch is applied to it.  *)
(***************************************************************************)
RECURSIVE Casings(_)
Casings(w) ==
    IF w = <<>> THEN {<<>>}
    ELSE {<<c>> \o r : c \in {Head(w), UpperChar(Head(w))}, r \in Casings(Tail(w))}

NearMisses ==
    LET words == {positif, negatif, Upper(positif), Upper(negatif)}
    IN  {<<>>}
        \cup {SubSeq(w, 1, Len(w) - 1) : w \in words}
        \cup {Tail(w) : w \in words}
        \cup {Append(w, c) : w \in words, c \in {" ", "f", "F"}}
        \cup {<<" ">> \o w : w \in words}

LabelInputs == Casings(positif) \cup Casings(negatif) \cup Casings(netral) \cup NearMisses

InitLabel ==
    /\ InitRest
    /\ locals \in {[NoLocals EXCEPT !.hasil_prediksi = l] : l \in LabelInputs}

StyleLabel ==
    /\ locals.emoji = ""
    /\ locals' = [locals EXCEPT !.emoji = Styling(locals.hasil_prediksi).emoji,
                                !.color = Styling(locals.hasil_prediksi).color]
    /\ UNCHANGED <<cache_resource, cache_data, model, vectorizer, df, option,
                   user_input, pressed, rendered, notices, calls, attempted, shown,
                   raised, load_runs, loaded_before, remembered, failed_since>>

NextLabel == StyleLabel

SpecLabel == InitLabel /\ [][NextLabel]_vars

(***************************************************************************)
(* Properties.                                                             *)
(***************************************************************************)
Footer == "footer"

ViewHeading(opt) ==
    IF opt = Dashboard THEN "dashboard_heading"
    ELSE IF opt = Dataset THEN "dataset_heading"
    ELSE IF opt = PrediksiManual THEN "prediksi_heading"
    ELSE "visualisasi_heading"

\* Every character of the text is white space (the empty text included).
AllBlank(text) == \A i \in DOMAIN text : text[i] \in Whitespace

\* C1: with the dataset file absent, load_data reports it and returns None,
\* and the run of any of the four views ends without an uncaught exception,
\* its footer rendered; a submission of non-blank text with loaded artifacts
\* is still put to the artifacts.
C1_DatasetAbsentNeverCrashes ==
    df = None =>
        /\ DatasetNotFound \in notices
        /\ raised = NoException
        /\ Footer \in rendered
        /\ ViewHeading(option) \in rendered
        /\ (pressed /\ ~AllBlank(user_input) => attempted)

\* The latest run found an artifact file missing or not deserializable.
ArtifactLoadFailed == model = None \/ raised = UnpicklingError

\* C2: an artifact load failure, by a missing file or by a file that does not
\* deserialize, leaves model and vectorizer None and the run alive: the views
\* that browse a loaded dataset still render to the footer.
C2_ArtifactFailureNonFatal ==
    ArtifactLoadFailed =>
        /\ model = None /\ vectorizer = None
        /\ ModelsNotFound \in notices
        /\ (option # PrediksiManual /\ df \in DataFrames =>
                /\ raised = NoException
                /\ ViewHeading(option) \in rendered
                /\ Footer \in rendered)

\* C3: a press of the prediction button with text that is empty once its
\* leading and trailing white space is dropped makes no call to transform,
\* predict or decision_function, and shows the empty-input warning and no
\* prediction error.
C3_EmptyInputShortCircuit ==
    pressed /\ AllBlank(user_input) =>
        /\ calls = <<>>
        /\ ~attempted
        /\ ~shown.present
        /\ EmptyInputWarning \in notices
        /\ ~PredictionFailedIn(notices)
        /\ raised = NoException

C3_Witness ==
    /\ pressed
    /\ user_input # <<>>
    /\ AllBlank(user_input)
    /\ EmptyInputWarning \in notices

\* The first failure of the steps of the try block on the latest submission,
\* read off the artifacts step by step.
UnderlyingFailure ==
    LET t == Transform(vectorizer, user_input)
    IN  IF t.exc # NoException THEN t.exc
        ELSE IF Predict(model, t.features).exc # NoException
        THEN Predict(model, t.features).exc
        ELSE IF DecisionFunction(model, t.features).exc # NoException
        THEN DecisionFunction(model, t.features).exc
        ELSE IF ~DecisionFunction(model, t.features).margin.scalar
        THEN FormatTypeError
        ELSE NoException

\* C4: a failure of vectorization, prediction, margin computation or result
\* rendering on a non-blank submission is caught by the prediction action and
\* shown as an error holding the failure's message; the run goes on to the
\* footer, and a text that was classified before the failure is classified
\* again when it is submitted after it.
C4_PredictionFailureCaught ==
    /\ attempted =>
          /\ raised = NoException
          /\ Footer \in rendered
          /\ IF UnderlyingFailure = NoException
             THEN shown.present /\ ~PredictionFailedIn(notices)
             ELSE /\ ~shown.present
                  /\ \E n \in notices :
                        /\ n.level = "error"
                        /\ n.text = "Terjadi kesalahan dalam prediksi"
                        /\ n.detail = UnderlyingFailure.msg
    /\ (failed_since /\ pressed /\ user_input = remembered.text) => shown.present

C4_Witness ==
    /\ failed_since
    /\ pressed
    /\ shown.present
    /\ Footer \in rendered

\* Some casing of the word w.
IsCasingOf(s, w) ==
    /\ Len(s) = Len(w)
    /\ \A i \in DOMAIN w : s[i] \in {w[i], UpperChar(w[i])}

\* C5: the styling branch is total and case-insensitive: every casing of
\* "positif" is styled positive, every casing of "negatif" negative, and every
\* other label neutral.
C5_LabelMappingCaseInsensitive ==
    locals.emoji # "" =>
        /\ IsCasingOf(locals.hasil_prediksi, positif) <=>
                (locals.emoji = "smile" /\ locals.color = "#4CAF50")
        /\ IsCasingOf(locals.hasil_prediksi, negatif) <=>
                (locals.emoji = "sad" /\ locals.color = "#F44336")
        /\ (~IsCasingOf(locals.hasil_prediksi, positif)
             /\ ~IsCasingOf(locals.hasil_prediksi, negatif)) <=>
                (locals.emoji = "neutral" /\ locals.color = "#FF9800")

C5_Witness ==
    /\ locals.emoji = "smile"
    /\ locals.hasil_prediksi # positif
    /\ locals.hasil_prediksi # Upper(positif)

\* The magnitude of the margin of the latest prediction, in sixteenths.
MarginMagnitude ==
    IF locals.confidence.value < 0
    THEN 0 - locals.confidence.value ELSE locals.confidence.value

\* C6 as stated: the confidence shown equals the absolute value of the margin
\* (shown is in hundredths, the margin in sixteenths) and is not negative.
C6_ConfidenceEqualsAbsMargin ==
    shown.present =>
        /\ shown.confidence >= 0
        /\ 16 * shown.confidence = 100 * MarginMagnitude

\* C6 as amended: the confidence shown is not negative and is the absolute
\* value of the margin rounded to two decimals: a whole number of hundredths
\* at most half a hundredth away from it.
C6_ConfidenceIsRoundedAbsMargin ==
    shown.present =>
        /\ shown.confidence >= 0
        /\ 16 * shown.confidence - 100 * MarginMagnitude <= 8
        /\ 100 * MarginMagnitude - 16 * shown.confidence <= 8

C6_Witness ==
    /\ shown.present
    /\ locals.confidence.value < 0
    /\ shown.confidence > 0

\* C7: the body of load_models executes at most once in the process: a run
\* that follows one which executed it does not execute it again, whether the
\* load succeeded or failed.
C7_LoadBodyAtMostOnce == ~(loaded_before /\ load_runs > 0)

\* The service is ready: both names are bound to loaded artifacts.
Ready == model \in Models /\ vectorizer \in Vectorizers

\* C8: transform, predict and decision_function are called, and the try
\* block is entered, only when a successful load is memoized and bound to
\* model and vectorizer; and a ready service stays ready.
C8_LoadBeforeClassify ==
    /\ [](attempted \/ calls # <<>> =>
            /\ Ready
            /\ cache_resource.present
            /\ cache_resource.model = model
            /\ cache_resource.vectorizer = vectorizer)
    /\ [][Ready => Ready']_vars

C8_Witness ==
    /\ Len(calls) = 3
    /\ loaded_before
    /\ load_runs = 0

\* C9: when a word cloud image is missing the failure stays inside the word
\* cloud tab: the charts, the detail analysis and the footer are rendered,
\* and the notice names the files the tab opens.
C9_MissingImageNoticeNamesOpenedFiles ==
    WordCloudNotFound \in notices =>
        /\ raised = NoException
        /\ {"bar_chart", "pie_chart", "sentiment_metrics", "donut_chart", Footer}
               \subseteq rendered
        /\ \E n \in notices : n.level = "info" /\ n.files = ImageSet

\* C10: a submission leaves the memoized artifacts and dataset and the names
\* bound to them as they were, and a text classified once is shown with the
\* same label and confidence whenever it is submitted again.
C10_ClassifyPure ==
    /\ [](remembered.present /\ pressed /\ user_input = remembered.text =>
            /\ shown.present
            /\ shown.heading = remembered.heading
            /\ shown.confidence = remembered.confidence)
    /\ [][pressed' =>
            /\ cache_resource.present => cache_resource' = cache_resource
            /\ cache_data.present => cache_data' = cache_data
            /\ model # Unbound => model' = model /\ vectorizer' = vectorizer
            /\ df \in DataFrames \cup {None} => df' = df]_vars

C10_Witness ==
    /\ remembered.present
    /\ failed_since
    /\ pressed
    /\ user_input = remembered.text
    /\ shown.confidence = remembered.confidence
    /\ shown.confidence > 0

====
